---- MODULE Spec2Model ----
(***************************************************************************)
(* Model of snap-confine's command line parser, snap-confine-args.c.       *)
(*                                                                         *)
(* C strings are sequences of one-character strings.  A null char* is the  *)
(* value NULL, a one-element sequence that no C string of the model        *)
(* equals.  The argument vector is a function from slot index (0-based,    *)
(* as in C) to a C string or NULL.                                         *)
(***************************************************************************)
EXTENDS Integers, Sequences, FiniteSets, TLC

\* Largest argument count (argv[0] included) the caller passes.
MaxArgc == 5

\* How many times the caller releases its reference.
MaxCleanups == 2

NULL == <<"NULL">>

--------------------------------------------------------------------------
\* String literals of the source.

\* "--version", line 80
VERSION == <<"-", "-", "v", "e", "r", "s", "i", "o", "n">>
\* "--classic", line 84
CLASSIC == <<"-", "-", "c", "l", "a", "s", "s", "i", "c">>
\* "ubuntu-core-launcher", line 70
LEGACY_NAME ==
  <<"u", "b", "u", "n", "t", "u", "-", "c", "o", "r", "e", "-",
    "l", "a", "u", "n", "c", "h", "e", "r">>

\* Error messages (format strings) of the source.
MSG_NULL == "cannot parse arguments, argc or argv are NULL"
MSG_ZERO == "cannot parse arguments, argc is zero"
MSG_OPTION == "unrecognized command line option: %s"
MSG_NO_TAG == "application or hook security tag was not provided"
MSG_NO_EXE == "executable name was not provided"

\* Error domain and codes of snap-confine-args.h.
SC_ARGS_DOMAIN == "args"
SC_ARGS_ERR_USAGE == 1

--------------------------------------------------------------------------
\* The inputs the caller draws from.

EMPTY == << >>
DASH == <<"-">>
VERSION_CAP == <<"-", "-", "V", "e", "r", "s", "i", "o", "n">>
VERS == <<"-", "-", "v", "e", "r", "s">>
TAG == <<"t", "a", "g">>
EXE == <<"e", "x", "e">>

Tokens == {EMPTY, DASH, VERSION, CLASSIC, VERSION_CAP, VERS, TAG, EXE}

PROG == <<"p", "r", "o", "g">>
BIN_PROG == <<"/", "b", "i", "n", "/">> \o PROG
PATH_LEGACY == <<"/", "p", "a", "t", "h", "/">> \o LEGACY_NAME
BARE_LEGACY == LEGACY_NAME

Progs == {PROG, BIN_PROG, PATH_LEGACY, BARE_LEGACY}

\* The argument vectors of argc entries followed by the null marker.
Vectors(n) ==
  IF n = 0
  THEN {[k \in 0..0 |-> NULL]}
  ELSE {[k \in 0..n |-> IF k = 0 THEN p ELSE IF k = n THEN NULL ELSE t[k]] :
          p \in Progs, t \in [1..(n - 1) -> Tokens]}

--------------------------------------------------------------------------
\* Helpers of the C library and of the error module.

\* strrchr(s, '/'): the index (1-based) of the last '/', 0 when there is none.
strrchr_slash(s) ==
  IF \E k \in 1..Len(s) : s[k] = "/"
  THEN CHOOSE k \in 1..Len(s) : s[k] = "/" /\ \A j \in (k + 1)..Len(s) : s[j] # "/"
  ELSE 0

\* strcmp(a, b) == 0
streq(a, b) == a = b

\* s[0] == '-'
StartsWithDash(s) == Len(s) > 0 /\ s[1] = "-"

\* sc_error_init(domain, code, fmt, arg): the error object; arg is the
\* string the format's %s prints, NULL when the format has none.
sc_error_init(domain, code, fmt, arg) ==
  [null |-> FALSE, domain |-> domain, code |-> code, msg |-> fmt, arg |-> arg]

\* struct sc_error *err = NULL
NoError == [null |-> TRUE, domain |-> "", code |-> 0, msg |-> "", arg |-> NULL]

\* calloc(1, sizeof *args): every field zero.
ZeroArgs ==
  [security_tag |-> NULL, executable |-> NULL,
   is_version_query |-> FALSE, is_classic_confinement |-> FALSE]

Blocks == {"args", "security_tag", "executable"}

\* free(p) of block b: a no-op on a null pointer.
Free(h, b, isnull) ==
  IF isnull THEN h
  ELSE [h EXCEPT ![b] = IF h[b] = "live" THEN "freed" ELSE "double"]

--------------------------------------------------------------------------
VARIABLES
  pc,              \* position in sc_nonfatal_parse_args
  argcp_null,      \* argcp == NULL
  argvp_null,      \* argvp == NULL
  argc_cell,       \* *argcp
  argv_mem,        \* the storage *argvp points to
  in_argc,         \* the count the caller passed
  in_argv,         \* the vector the caller passed
  argc,            \* local copy of *argcp
  optind,          \* scan index
  ignore_first_tag,\* legacy one-shot discard flag
  args,            \* the local pointer: "NULL" or "obj"
  obj,             \* the struct sc_args the pointer refers to
  heap,            \* state of each heap block
  err,             \* the local error
  errorp,          \* *errorp, the caller's error cell
  ret,             \* the caller's reference to the result: "NULL" or "obj";
                   \* "none" before the parser returns
  cleanups,        \* how many times the caller ran sc_cleanup_args on it
  call             \* the caller's last accessor call and its outcome

vars ==
  <<pc, argcp_null, argvp_null, argc_cell, argv_mem, in_argc, in_argv, argc,
    optind, ignore_first_tag, args, obj, heap, err, errorp, ret, cleanups,
    call>>

\* The caller's part of the state.
caller == <<cleanups, call>>

\* No accessor was called yet.
NoCall == [fn |-> "none", outcome |-> "none", val |-> FALSE]

Init ==
  /\ pc = "entry"
  /\ argcp_null \in BOOLEAN
  /\ argvp_null \in BOOLEAN
  /\ argc_cell \in 0..MaxArgc
  /\ (argcp_null \/ argvp_null) => argc_cell = 0
  /\ argv_mem \in Vectors(argc_cell)
  /\ in_argc = argc_cell
  /\ in_argv = argv_mem
  /\ argc = 0
  /\ optind = 0
  /\ ignore_first_tag = FALSE
  /\ args = "NULL"
  /\ obj = ZeroArgs
  /\ heap = [b \in Blocks |-> "none"]
  /\ err = NoError
  /\ errorp = NoError
  /\ ret = "none"
  /\ cleanups = 0
  /\ call = NoCall

--------------------------------------------------------------------------
\* Faulty variant of the legacy detection: any argv[0] with a '/' arms the
\* discard flag, the name after it is not compared.
LegacyInvocation_AnySlash(argv0) == strrchr_slash(argv0) # 0

\* Lines 64-73: called through the ubuntu-core-launcher symlink?
LegacyInvocation(argv0) ==
  LET slash == strrchr_slash(argv0) IN
    /\ slash # 0
    /\ streq(SubSeq(argv0, slash + 1, Len(argv0)), LEGACY_NAME)

\* Faulty variant of the entry checks: a zero count is reported with the
\* usage code.
EntryError_UsageCode(cn, vn, n) ==
  IF cn \/ vn
  THEN sc_error_init(SC_ARGS_DOMAIN, 0, MSG_NULL, NULL)
  ELSE IF n = 0
  THEN sc_error_init(SC_ARGS_DOMAIN, SC_ARGS_ERR_USAGE, MSG_ZERO, NULL)
  ELSE NoError

\* Lines 42-55: the error of the entry checks on the two handles and the
\* count, NoError when they pass.
EntryError(cn, vn, n) ==
  IF cn \/ vn
  THEN sc_error_init(SC_ARGS_DOMAIN, 0, MSG_NULL, NULL)
  ELSE IF n = 0
  THEN sc_error_init(SC_ARGS_DOMAIN, 0, MSG_ZERO, NULL)
  ELSE NoError

\* Lines 42-73: the null and zero checks, the allocation of the result and
\* the detection of the legacy invocation.
Entry ==
  /\ pc = "entry"
  /\ UNCHANGED caller
  /\ IF argcp_null \/ argvp_null
     THEN /\ err' = EntryError(argcp_null, argvp_null, argc_cell)
          /\ pc' = "out"
          /\ UNCHANGED <<argc, args, obj, heap, ignore_first_tag, optind>>
     ELSE /\ argc' = argc_cell
          /\ IF argc_cell = 0
             THEN /\ err' = EntryError(argcp_null, argvp_null, argc_cell)
                  /\ pc' = "out"
                  /\ UNCHANGED <<args, obj, heap, ignore_first_tag, optind>>
             ELSE /\ args' = "obj"
                  /\ obj' = ZeroArgs
                  /\ heap' = [heap EXCEPT !["args"] = "live"]
                  /\ ignore_first_tag' = LegacyInvocation(argv_mem[0])
                  /\ optind' = 1
                  /\ pc' = "scan"
                  /\ UNCHANGED err
  /\ UNCHANGED <<argcp_null, argvp_null, argc_cell, argv_mem, in_argc, in_argv,
                 errorp, ret>>

\* Lines 57-60: calloc fails and the process dies.
EntryNoMemory ==
  /\ pc = "entry"
  /\ UNCHANGED caller
  /\ ~(argcp_null \/ argvp_null)
  /\ argc_cell # 0
  /\ argc' = argc_cell
  /\ pc' = "died"
  /\ UNCHANGED <<argcp_null, argvp_null, argc_cell, argv_mem, in_argc, in_argv,
                 optind, ignore_first_tag, args, obj, heap, err, errorp, ret>>

\* Faulty variant of the switch branch: an unknown switch is skipped.
OnSwitch_IgnoreUnknown(tok, a, ift) ==
  IF streq(tok, VERSION)
  THEN [obj |-> [a EXCEPT !.is_version_query = TRUE], ift |-> ift,
        ctl |-> "break", err |-> NoError, alloc |-> "none"]
  ELSE IF streq(tok, CLASSIC)
  THEN [obj |-> [a EXCEPT !.is_classic_confinement = TRUE], ift |-> ift,
        ctl |-> "continue", err |-> NoError, alloc |-> "none"]
  ELSE [obj |-> a, ift |-> ift, ctl |-> "continue", err |-> NoError,
        alloc |-> "none"]

\* Faulty variant of the switch branch: --classic is accepted but the flag
\* is not set.
OnSwitch_ClassicFlagLost(tok, a, ift) ==
  IF streq(tok, VERSION)
  THEN [obj |-> [a EXCEPT !.is_version_query = TRUE], ift |-> ift,
        ctl |-> "break", err |-> NoError, alloc |-> "none"]
  ELSE IF streq(tok, CLASSIC)
  THEN [obj |-> a, ift |-> ift, ctl |-> "continue", err |-> NoError,
        alloc |-> "none"]
  ELSE [obj |-> a, ift |-> ift, ctl |-> "error",
        err |-> sc_error_init(SC_ARGS_DOMAIN, SC_ARGS_ERR_USAGE, MSG_OPTION, tok),
        alloc |-> "none"]

\* Faulty variant of the switch branch: --version sets the flag and the
\* scan goes on.
OnSwitch_VersionContinues(tok, a, ift) ==
  IF streq(tok, VERSION)
  THEN [obj |-> [a EXCEPT !.is_version_query = TRUE], ift |-> ift,
        ctl |-> "continue", err |-> NoError, alloc |-> "none"]
  ELSE IF streq(tok, CLASSIC)
  THEN [obj |-> [a EXCEPT !.is_classic_confinement = TRUE], ift |-> ift,
        ctl |-> "continue", err |-> NoError, alloc |-> "none"]
  ELSE [obj |-> a, ift |-> ift, ctl |-> "error",
        err |-> sc_error_init(SC_ARGS_DOMAIN, SC_ARGS_ERR_USAGE, MSG_OPTION, tok),
        alloc |-> "none"]

\* Faulty variant of the switch branch: a token that is a prefix of
\* "--version" (strncmp on the token's length) counts as --version.
OnSwitch_PrefixMatch(tok, a, ift) ==
  IF Len(tok) <= Len(VERSION) /\ streq(tok, SubSeq(VERSION, 1, Len(tok)))
  THEN [obj |-> [a EXCEPT !.is_version_query = TRUE], ift |-> ift,
        ctl |-> "break", err |-> NoError, alloc |-> "none"]
  ELSE IF streq(tok, CLASSIC)
  THEN [obj |-> [a EXCEPT !.is_classic_confinement = TRUE], ift |-> ift,
        ctl |-> "continue", err |-> NoError, alloc |-> "none"]
  ELSE [obj |-> a, ift |-> ift, ctl |-> "error",
        err |-> sc_error_init(SC_ARGS_DOMAIN, SC_ARGS_ERR_USAGE, MSG_OPTION, tok),
        alloc |-> "none"]

\* Faulty variant of the switch branch: --classic sets the flag and ends
\* the scan.
OnSwitch_ClassicStops(tok, a, ift) ==
  IF streq(tok, VERSION)
  THEN [obj |-> [a EXCEPT !.is_version_query = TRUE], ift |-> ift,
        ctl |-> "break", err |-> NoError, alloc |-> "none"]
  ELSE IF streq(tok, CLASSIC)
  THEN [obj |-> [a EXCEPT !.is_classic_confinement = TRUE], ift |-> ift,
        ctl |-> "break", err |-> NoError, alloc |-> "none"]
  ELSE [obj |-> a, ift |-> ift, ctl |-> "error",
        err |-> sc_error_init(SC_ARGS_DOMAIN, SC_ARGS_ERR_USAGE, MSG_OPTION, tok),
        alloc |-> "none"]

\* Lines 78-95: a token that starts with '-'.  The outcome says how the
\* loop goes on: "break", "continue" or "error" (goto out).
OnSwitch(tok, a, ift) ==
  IF streq(tok, VERSION)
  THEN [obj |-> [a EXCEPT !.is_version_query = TRUE], ift |-> ift,
        ctl |-> "break", err |-> NoError, alloc |-> "none"]
  ELSE IF streq(tok, CLASSIC)
  THEN [obj |-> [a EXCEPT !.is_classic_confinement = TRUE], ift |-> ift,
        ctl |-> "continue", err |-> NoError, alloc |-> "none"]
  ELSE [obj |-> a, ift |-> ift, ctl |-> "error",
        err |-> sc_error_init(SC_ARGS_DOMAIN, SC_ARGS_ERR_USAGE, MSG_OPTION, tok),
        alloc |-> "none"]

\* Faulty variant of the positional branch: the scan goes on after the
\* executable is stored.
OnPositional_ExeContinues(tok, a, ift) ==
  IF a.security_tag = NULL
  THEN IF ift
       THEN [obj |-> a, ift |-> FALSE, ctl |-> "continue", err |-> NoError,
             alloc |-> "none"]
       ELSE [obj |-> [a EXCEPT !.security_tag = tok], ift |-> ift,
             ctl |-> "fall", err |-> NoError, alloc |-> "security_tag"]
  ELSE IF a.executable = NULL
  THEN [obj |-> [a EXCEPT !.executable = tok], ift |-> ift,
        ctl |-> "fall", err |-> NoError, alloc |-> "executable"]
  ELSE [obj |-> a, ift |-> ift, ctl |-> "fall", err |-> NoError,
        alloc |-> "none"]

\* Faulty variant of the positional branch: every positional token before
\* the executable is stored as the security tag, the last one wins.
OnPositional_OverwritesTag(tok, a, ift) ==
  IF a.security_tag = NULL \/ ift
  THEN IF ift
       THEN [obj |-> [a EXCEPT !.security_tag = tok], ift |-> FALSE,
             ctl |-> "fall", err |-> NoError, alloc |-> "security_tag"]
       ELSE [obj |-> [a EXCEPT !.security_tag = tok], ift |-> ift,
             ctl |-> "fall", err |-> NoError, alloc |-> "security_tag"]
  ELSE IF a.executable = NULL
  THEN [obj |-> [a EXCEPT !.executable = tok], ift |-> ift,
        ctl |-> "break", err |-> NoError, alloc |-> "executable"]
  ELSE [obj |-> a, ift |-> ift, ctl |-> "fall", err |-> NoError,
        alloc |-> "none"]

\* Faulty variant of the positional branch: the discard flag is not cleared
\* by the token it discards.
OnPositional_FlagSticky(tok, a, ift) ==
  IF a.security_tag = NULL
  THEN IF ift
       THEN [obj |-> a, ift |-> ift, ctl |-> "continue", err |-> NoError,
             alloc |-> "none"]
       ELSE [obj |-> [a EXCEPT !.security_tag = tok], ift |-> ift,
             ctl |-> "fall", err |-> NoError, alloc |-> "security_tag"]
  ELSE IF a.executable = NULL
  THEN [obj |-> [a EXCEPT !.executable = tok], ift |-> ift,
        ctl |-> "break", err |-> NoError, alloc |-> "executable"]
  ELSE [obj |-> a, ift |-> ift, ctl |-> "fall", err |-> NoError,
        alloc |-> "none"]

\* Lines 96-121: a positional token.  "fall" is the end of the loop body
\* without break or continue; alloc names the block strdup allocates.
OnPositional(tok, a, ift) ==
  IF a.security_tag = NULL
  THEN IF ift
       THEN [obj |-> a, ift |-> FALSE, ctl |-> "continue", err |-> NoError,
             alloc |-> "none"]
       ELSE [obj |-> [a EXCEPT !.security_tag = tok], ift |-> ift,
             ctl |-> "fall", err |-> NoError, alloc |-> "security_tag"]
  ELSE IF a.executable = NULL
  THEN [obj |-> [a EXCEPT !.executable = tok], ift |-> ift,
        ctl |-> "break", err |-> NoError, alloc |-> "executable"]
  ELSE [obj |-> a, ift |-> ift, ctl |-> "fall", err |-> NoError,
        alloc |-> "none"]

\* Lines 78-121: the body of the scan loop on one token.
ScanToken(tok, a, ift) ==
  IF StartsWithDash(tok)
  THEN OnSwitch(tok, a, ift)
  ELSE OnPositional(tok, a, ift)

\* Lines 76-122: one iteration of the scan loop, with the loop's ++optind.
ScanStep ==
  /\ pc = "scan"
  /\ UNCHANGED caller
  /\ optind < argc
  /\ LET r == ScanToken(argv_mem[optind], obj, ignore_first_tag) IN
       /\ obj' = r.obj
       /\ ignore_first_tag' = r.ift
       /\ err' = r.err
       /\ heap' = IF r.alloc = "none" THEN heap
                  ELSE [heap EXCEPT ![r.alloc] = "live"]
       /\ optind' = IF r.ctl \in {"continue", "fall"} THEN optind + 1 ELSE optind
       /\ pc' = CASE r.ctl = "break" -> "validate"
                  [] r.ctl = "error" -> "out"
                  [] OTHER -> "scan"
  /\ UNCHANGED <<argcp_null, argvp_null, argc_cell, argv_mem, in_argc, in_argv,
                 argc, args, errorp, ret>>

\* Lines 107-110 and 113-116: strdup fails and the process dies.
ScanNoMemory ==
  /\ pc = "scan"
  /\ UNCHANGED caller
  /\ optind < argc
  /\ ScanToken(argv_mem[optind], obj, ignore_first_tag).alloc # "none"
  /\ pc' = "died"
  /\ UNCHANGED <<argcp_null, argvp_null, argc_cell, argv_mem, in_argc, in_argv,
                 argc, optind, ignore_first_tag, args, obj, heap, err, errorp,
                 ret>>

\* Line 76: the loop condition fails, the scan ran to the end of the vector.
ScanEnd ==
  /\ pc = "scan"
  /\ UNCHANGED caller
  /\ ~(optind < argc)
  /\ pc' = "validate"
  /\ UNCHANGED <<argcp_null, argvp_null, argc_cell, argv_mem, in_argc, in_argv,
                 argc, optind, ignore_first_tag, args, obj, heap, err, errorp,
                 ret>>

\* Faulty variant of the validation: the executable is not checked.
ValidationError_NoExeCheck(a) ==
  IF a.is_version_query = FALSE /\ a.security_tag = NULL
  THEN sc_error_init(SC_ARGS_DOMAIN, SC_ARGS_ERR_USAGE, MSG_NO_TAG, NULL)
  ELSE NoError

\* Faulty variant of the validation: the executable is checked first.
ValidationError_ExeFirst(a) ==
  IF a.is_version_query = FALSE
  THEN IF a.executable = NULL
       THEN sc_error_init(SC_ARGS_DOMAIN, SC_ARGS_ERR_USAGE, MSG_NO_EXE, NULL)
       ELSE IF a.security_tag = NULL
       THEN sc_error_init(SC_ARGS_DOMAIN, SC_ARGS_ERR_USAGE, MSG_NO_TAG, NULL)
       ELSE NoError
  ELSE NoError

\* Faulty variant of the validation: nothing is checked.
ValidationError_Skipped(a) == NoError

\* Lines 124-137: the error of the validation, NoError when it passes.
ValidationError(a) ==
  IF a.is_version_query = FALSE
  THEN IF a.security_tag = NULL
       THEN sc_error_init(SC_ARGS_DOMAIN, SC_ARGS_ERR_USAGE, MSG_NO_TAG, NULL)
       ELSE IF a.executable = NULL
       THEN sc_error_init(SC_ARGS_DOMAIN, SC_ARGS_ERR_USAGE, MSG_NO_EXE, NULL)
       ELSE NoError
  ELSE NoError

\* Faulty variant of the validation step: the error is recorded and the
\* function goes on to the shift instead of leaving.
Validate_FallsThrough ==
  /\ pc = "validate"
  /\ UNCHANGED caller
  /\ err' = ValidationError(obj)
  /\ pc' = "shift"
  /\ UNCHANGED <<argcp_null, argvp_null, argc_cell, argv_mem, in_argc, in_argv,
                 argc, optind, ignore_first_tag, args, obj, heap, errorp, ret>>

\* Lines 124-137.
Validate ==
  /\ pc = "validate"
  /\ UNCHANGED caller
  /\ err' = ValidationError(obj)
  /\ pc' = IF err'.null THEN "shift" ELSE "out"
  /\ UNCHANGED <<argcp_null, argvp_null, argc_cell, argv_mem, in_argc, in_argv,
                 argc, optind, ignore_first_tag, args, obj, heap, errorp, ret>>

\* Lines 141-144: the in-place shift loop from index i on, then the null
\* marker.  A store to a slot outside the storage is not modelled.
RECURSIVE ShiftLoop(_, _, _, _)
ShiftLoop(av, i, oi, n) ==
  IF oi + i < n
  THEN ShiftLoop([av EXCEPT ![i] = av[oi + i]], i + 1, oi, n)
  ELSE [av EXCEPT ![i] = NULL]

\* Lines 140-144.
ShiftArgv(av, oi, n) == ShiftLoop(av, 1, oi, n)

\* Faulty variant of the write-back: the token the scan stopped at is
\* counted as unconsumed.
ShiftedCount_OffByOne(n, oi) == n - oi + 1

\* Line 148: the count written back.
ShiftedCount(n, oi) == n - oi

\* Lines 138-148: the shift of the vector and the write-back.
Shift ==
  /\ pc = "shift"
  /\ UNCHANGED caller
  /\ argv_mem' = ShiftArgv(argv_mem, optind, argc)
  /\ argc_cell' = ShiftedCount(argc, optind)
  /\ pc' = "out"
  /\ UNCHANGED <<argcp_null, argvp_null, in_argc, in_argv, argc, optind,
                 ignore_first_tag, args, obj, heap, err, errorp, ret>>

\* Faulty variant of sc_args_free: the security tag is not freed.
sc_args_free_LeakTag(p, a, h) ==
  IF p # "NULL"
  THEN [obj |-> [a EXCEPT !.security_tag = NULL, !.executable = NULL],
        heap |-> Free(Free(h, "executable", a.executable = NULL), "args", FALSE)]
  ELSE [obj |-> a, heap |-> h]

\* Lines 160-169: sc_args_free(args).
sc_args_free(p, a, h) ==
  IF p # "NULL"
  THEN [obj |-> [a EXCEPT !.security_tag = NULL, !.executable = NULL],
        heap |-> Free(Free(Free(h, "security_tag", a.security_tag = NULL),
                           "executable", a.executable = NULL),
                      "args", FALSE)]
  ELSE [obj |-> a, heap |-> h]

\* Faulty variant of sc_cleanup_args: the caller's reference is not nulled.
sc_cleanup_args_KeepsPointer(p, a, h) ==
  LET f == sc_args_free(p, a, h) IN
    [ptr |-> p, obj |-> f.obj, heap |-> f.heap]

\* Lines 171-175: sc_cleanup_args(&p).
sc_cleanup_args(p, a, h) ==
  LET f == sc_args_free(p, a, h) IN
    [ptr |-> "NULL", obj |-> f.obj, heap |-> f.heap]

\* Lines 150-158: the result passed through the cleanup when there is an
\* error.
Cleaned(p, a, h, e) ==
  IF ~e.null THEN sc_cleanup_args(p, a, h)
  ELSE [ptr |-> p, obj |-> a, heap |-> h]

\* Lines 150-158: cleanup on error, forward the error, return.  The
\* caller's error cell is present, so sc_error_forward stores into it.
Out ==
  /\ pc = "out"
  /\ UNCHANGED caller
  /\ LET c == Cleaned(args, obj, heap, err) IN
       /\ args' = c.ptr
       /\ obj' = c.obj
       /\ heap' = c.heap
       /\ ret' = c.ptr
  /\ errorp' = err
  /\ pc' = "returned"
  /\ UNCHANGED <<argcp_null, argvp_null, argc_cell, argv_mem, in_argc, in_argv,
                 argc, optind, ignore_first_tag, err>>

\* Lines 171-175 at the caller: sc_cleanup_args(&ret) on the reference the
\* parser returned, live or null.
CallerCleanup ==
  /\ pc \in {"returned", "released"}
  /\ cleanups < MaxCleanups
  /\ LET c == sc_cleanup_args(ret, obj, heap) IN
       /\ ret' = c.ptr
       /\ obj' = c.obj
       /\ heap' = c.heap
  /\ cleanups' = cleanups + 1
  /\ pc' = "released"
  /\ UNCHANGED <<argcp_null, argvp_null, argc_cell, argv_mem, in_argc, in_argv,
                 argc, optind, ignore_first_tag, args, err, errorp, call>>

\* Lines 177-183: sc_args_is_version_query(p); a is the struct p refers to.
sc_args_is_version_query(p, a) ==
  IF p = "NULL"
  THEN [fn |-> "sc_args_is_version_query", outcome |-> "die", val |-> FALSE]
  ELSE [fn |-> "sc_args_is_version_query", outcome |-> "value",
        val |-> a.is_version_query]

\* Faulty variant of the accessor: it reads the other flag.
sc_args_is_classic_confinement_ReadsVersion(p, a) ==
  IF p = "NULL"
  THEN [fn |-> "sc_args_is_classic_confinement", outcome |-> "die", val |-> FALSE]
  ELSE [fn |-> "sc_args_is_classic_confinement", outcome |-> "value",
        val |-> a.is_version_query]

\* Lines 185-191: sc_args_is_classic_confinement(p).
sc_args_is_classic_confinement(p, a) ==
  IF p = "NULL"
  THEN [fn |-> "sc_args_is_classic_confinement", outcome |-> "die", val |-> FALSE]
  ELSE [fn |-> "sc_args_is_classic_confinement", outcome |-> "value",
        val |-> a.is_classic_confinement]

\* Lines 193-199: sc_args_security_tag(p).
sc_args_security_tag(p, a) ==
  IF p = "NULL"
  THEN [fn |-> "sc_args_security_tag", outcome |-> "die", val |-> FALSE]
  ELSE [fn |-> "sc_args_security_tag", outcome |-> "value",
        val |-> a.security_tag]

\* Lines 201-207: sc_args_executable(p).
sc_args_executable(p, a) ==
  IF p = "NULL"
  THEN [fn |-> "sc_args_executable", outcome |-> "die", val |-> FALSE]
  ELSE [fn |-> "sc_args_executable", outcome |-> "value",
        val |-> a.executable]

Accessors ==
  {"sc_args_is_version_query", "sc_args_is_classic_confinement",
   "sc_args_security_tag", "sc_args_executable"}

\* Lines 177-207: the outcome of accessor fn on the reference p.
AccessorOutcome(fn, p, a) ==
  CASE fn = "sc_args_is_version_query" -> sc_args_is_version_query(p, a)
    [] fn = "sc_args_is_classic_confinement" -> sc_args_is_classic_confinement(p, a)
    [] fn = "sc_args_security_tag" -> sc_args_security_tag(p, a)
    [] fn = "sc_args_executable" -> sc_args_executable(p, a)

\* Lines 177-207: the caller calls one accessor on its reference; die() ends
\* the process.
CallerAccessor ==
  /\ pc \in {"returned", "released"}
  /\ \E fn \in Accessors :
       /\ call' = AccessorOutcome(fn, ret, obj)
       /\ pc' = IF call'.outcome = "die" THEN "died" ELSE pc
  /\ UNCHANGED <<argcp_null, argvp_null, argc_cell, argv_mem, in_argc, in_argv,
                 argc, optind, ignore_first_tag, args, obj, heap, err, errorp,
                 ret, cleanups>>

Next ==
  \/ Entry
  \/ EntryNoMemory
  \/ ScanStep
  \/ ScanNoMemory
  \/ ScanEnd
  \/ Validate
  \/ Shift
  \/ Out
  \/ CallerCleanup
  \/ CallerAccessor

Spec == Init /\ [][Next]_vars
--------------------------------------------------------------------------
\* Vocabulary of the properties, read off the vector the caller passed.

Returned == pc = "returned"

\* A non-null result and no error.
Succeeded == Returned /\ ret = "obj" /\ errorp.null

\* No result and a usage error.
UsageFailure ==
  /\ Returned
  /\ ret = "NULL"
  /\ ~errorp.null
  /\ errorp.domain = SC_ARGS_DOMAIN
  /\ errorp.code = SC_ARGS_ERR_USAGE

\* The indices of the tokens after argv[0].
TokenIndices == 1..(in_argc - 1)

IsPositional(t) == t = << >> \/ Head(t) # "-"

IsUnrecognized(t) == ~IsPositional(t) /\ t # VERSION /\ t # CLASSIC

\* The part of a path after its last '/', the whole path when it has none.
RECURSIVE FinalComponent(_)
FinalComponent(s) ==
  IF \E k \in 1..Len(s) : s[k] = "/"
  THEN FinalComponent(Tail(s))
  ELSE s

\* How many positional tokens the parser takes before it stops: the tag
\* and the executable, and the discarded one when the flag was armed.
PositionalsNeeded == IF LegacyInvocation(in_argv[0]) THEN 3 ELSE 2

PositionalsUpTo(i) == Cardinality({j \in 1..i : IsPositional(in_argv[j])})

\* The i-th token ends the scan when the scan gets to it.
StopsAt(i) ==
  \/ in_argv[i] = VERSION
  \/ IsPositional(in_argv[i]) /\ PositionalsUpTo(i) = PositionalsNeeded

\* No token before the i-th ends the scan, with or without an error.
ScanReaches(i) ==
  \A j \in 1..(i - 1) : ~StopsAt(j) /\ ~IsUnrecognized(in_argv[j])

\* The index of the token stored as the security tag by the time the scan
\* is at index i, 0 when there is none.
TagIndexBefore(i) ==
  IF \E j \in 1..(i - 1) :
       IsPositional(in_argv[j]) /\ PositionalsUpTo(j) = PositionalsNeeded - 1
  THEN CHOOSE j \in 1..(i - 1) :
       IsPositional(in_argv[j]) /\ PositionalsUpTo(j) = PositionalsNeeded - 1
  ELSE 0

--------------------------------------------------------------------------
\* C1: a vector [prog, tag, exe] whose program name's final path component
\* is not the legacy name and whose tag and exe do not start with '-'
\* parses successfully, with security_tag = tag, executable = exe and both
\* flags false.
C1_WellFormedPairParses ==
  ( /\ Returned
    /\ in_argc = 3
    /\ FinalComponent(in_argv[0]) # LEGACY_NAME
    /\ IsPositional(in_argv[1])
    /\ IsPositional(in_argv[2]) )
  => /\ Succeeded
     /\ obj.security_tag = in_argv[1]
     /\ obj.executable = in_argv[2]
     /\ obj.is_version_query = FALSE
     /\ obj.is_classic_confinement = FALSE

C1_Witness ==
  /\ Succeeded
  /\ in_argc = 3
  /\ in_argv[0] = BIN_PROG
  /\ in_argv[1] = TAG
  /\ in_argv[2] = EXE
  /\ obj.security_tag = TAG
  /\ obj.executable = EXE

\* C2 as stated: an unrecognized switch anywhere in argv[1..argc-1] makes
\* the parse fail with a usage error.
C2_AnyUnrecognizedFails ==
  ( /\ Returned
    /\ \E i \in TokenIndices : IsUnrecognized(in_argv[i]) )
  => UsageFailure

\* C2, amended: an unrecognized switch that the scan reaches, that is one
\* with no '--version' and no token stored as the executable before it,
\* makes the parse fail with a usage error and no result.
C2_ReachedUnrecognizedFails ==
  ( /\ Returned
    /\ \E i \in TokenIndices :
         /\ IsUnrecognized(in_argv[i])
         /\ \A j \in 1..(i - 1) : ~StopsAt(j) )
  => UsageFailure

C2_Witness ==
  /\ UsageFailure
  /\ in_argc = 4
  /\ in_argv[1] = TAG
  /\ in_argv[2] = VERSION_CAP
  /\ in_argv[3] = EXE

\* C3 as stated: on success is_classic_confinement is true iff '--classic'
\* is anywhere in argv[1..argc-1].
C3_ClassicIffAnywhere ==
  Succeeded =>
    (obj.is_classic_confinement
       <=> \E i \in TokenIndices : in_argv[i] = CLASSIC)

\* C3, amended: on success is_classic_confinement is true iff '--classic'
\* is among the tokens before the one the scan stopped at (the '--version'
\* token or the token stored as the executable).
C3_ClassicIffScanned ==
  Succeeded =>
    (obj.is_classic_confinement
       <=> \E i \in TokenIndices :
             in_argv[i] = CLASSIC /\ \A j \in 1..(i - 1) : ~StopsAt(j))

C3_Witness ==
  /\ Succeeded
  /\ in_argc = 5
  /\ in_argv[1] = TAG
  /\ in_argv[2] = CLASSIC
  /\ in_argv[3] = EXE
  /\ in_argv[4] = CLASSIC
  /\ obj.is_classic_confinement

\* C4: when the final path component of argv[0] is the legacy name, with
\* or without a '/' in argv[0], the first positional token is discarded and
\* the next two become security_tag and executable.
C4_LegacyNameDiscardsFirst ==
  ( /\ Returned
    /\ in_argc = 4
    /\ FinalComponent(in_argv[0]) = LEGACY_NAME
    /\ \A i \in 1..3 : IsPositional(in_argv[i]) )
  => /\ Succeeded
     /\ obj.security_tag = in_argv[2]
     /\ obj.executable = in_argv[3]

\* C5 as stated: after a successful parse that is no version query,
\* security_tag and executable are set and are not the empty string.
C5_TagAndExeNonEmpty ==
  (Succeeded /\ obj.is_version_query = FALSE)
  => /\ obj.security_tag # NULL
     /\ obj.executable # NULL
     /\ obj.security_tag # EMPTY
     /\ obj.executable # EMPTY

\* C5, amended: after a successful parse that is no version query,
\* security_tag and executable are set (not null); they are copies of two
\* positional tokens of the vector, the tag's before the executable's, and
\* are empty exactly when those tokens are the empty string.
C5_TagAndExeSet ==
  (Succeeded /\ obj.is_version_query = FALSE)
  => /\ obj.security_tag # NULL
     /\ obj.executable # NULL
     /\ \E i, k \in TokenIndices :
          /\ i < k
          /\ IsPositional(in_argv[i])
          /\ IsPositional(in_argv[k])
          /\ obj.security_tag = in_argv[i]
          /\ obj.executable = in_argv[k]

C5_Witness ==
  /\ Succeeded
  /\ obj.is_version_query = FALSE
  /\ in_argv[0] = PROG
  /\ in_argv[1] = EMPTY
  /\ in_argv[2] = EMPTY
  /\ obj.security_tag = EMPTY
  /\ obj.executable = EMPTY

\* C6: on every successful parse the scan stopped at the first index s
\* that holds '--version' or the token stored as the executable; argv[0] is
\* unchanged, argv[i] is the original argv[s+i] for 1 <= i < argc-s,
\* argv[argc-s] is the null marker and the count cell holds argc-s.
C6_ArgvCompaction ==
  Succeeded =>
    \E s \in TokenIndices :
      /\ StopsAt(s)
      /\ \A j \in 1..(s - 1) : ~StopsAt(j)
      /\ obj.is_version_query \/ obj.executable = in_argv[s]
      /\ argv_mem[0] = in_argv[0]
      /\ \A i \in 1..(in_argc - s - 1) : argv_mem[i] = in_argv[s + i]
      /\ argv_mem[in_argc - s] = NULL
      /\ argc_cell = in_argc - s

C6_Witness ==
  /\ Succeeded
  /\ in_argc = 5
  /\ in_argv[0] = PROG
  /\ in_argv[1] = TAG
  /\ in_argv[2] = EXE
  /\ in_argv[3] = CLASSIC
  /\ in_argv[4] = EMPTY
  /\ argv_mem[0] = PROG
  /\ argv_mem[1] = CLASSIC
  /\ argv_mem[2] = EMPTY
  /\ argv_mem[3] = NULL
  /\ argc_cell = 3

\* C7: when the scan reaches a '--version' token at index s, the parse
\* succeeds with is_version_query set, the scan stops at s and there is no
\* validation error; executable is unset, and is_classic_confinement and
\* security_tag are what the tokens before s make them, whatever tokens
\* follow s.
C7_VersionShortCircuit ==
  \A s \in TokenIndices :
    (Returned /\ in_argv[s] = VERSION /\ ScanReaches(s))
    => /\ Succeeded
       /\ optind = s
       /\ obj.is_version_query = TRUE
       /\ obj.executable = NULL
       /\ obj.is_classic_confinement
            = (\E j \in 1..(s - 1) : in_argv[j] = CLASSIC)
       /\ obj.security_tag
            = IF TagIndexBefore(s) = 0 THEN NULL ELSE in_argv[TagIndexBefore(s)]

C7_Witness ==
  /\ Succeeded
  /\ in_argc = 5
  /\ in_argv[1] = CLASSIC
  /\ in_argv[2] = VERSION
  /\ in_argv[3] = VERS
  /\ in_argv[4] = TAG
  /\ obj.is_version_query
  /\ obj.is_classic_confinement
  /\ obj.security_tag = NULL
  /\ optind = 2

\* C8: when the scan ends with no '--version' seen and no unrecognized
\* switch, and no executable was stored, the parse fails with a usage
\* error: the missing security tag one when no tag was stored (also when
\* the executable is missing too, as for [prog]), the missing executable
\* one when a tag was stored (as for [prog, tag]).
C8_ValidationErrors ==
  ( /\ Returned
    /\ in_argc > 0
    /\ \A i \in TokenIndices : ~StopsAt(i) /\ ~IsUnrecognized(in_argv[i]) )
  => /\ UsageFailure
     /\ errorp.msg = IF TagIndexBefore(in_argc) = 0 THEN MSG_NO_TAG ELSE MSG_NO_EXE
     /\ (in_argc = 1 => errorp.msg = MSG_NO_TAG)
     /\ ( ( /\ in_argc = 2
            /\ IsPositional(in_argv[1])
            /\ ~LegacyInvocation(in_argv[0]) )
          => errorp.msg = MSG_NO_EXE )

C8_Witness ==
  /\ UsageFailure
  /\ in_argc = 3
  /\ in_argv[0] = PROG
  /\ in_argv[1] = CLASSIC
  /\ in_argv[2] = TAG
  /\ errorp.msg = MSG_NO_EXE

\* C9: a call that returns ends in one of two outcomes: a non-null result
\* (a live object that owns its live strings) with no error, or a null
\* result with a populated error; on the failure outcome every block that
\* was allocated has been freed, once.
C9_ResultOrErrorNoLeak ==
  Returned =>
    \/ /\ ret = "obj"
       /\ errorp.null
       /\ heap["args"] = "live"
       /\ heap["security_tag"]
            = IF obj.security_tag = NULL THEN "none" ELSE "live"
       /\ heap["executable"]
            = IF obj.executable = NULL THEN "none" ELSE "live"
    \/ /\ ret = "NULL"
       /\ ~errorp.null
       /\ errorp.domain = SC_ARGS_DOMAIN
       /\ \A b \in Blocks : heap[b] \in {"none", "freed"}

C9_Witness ==
  /\ Returned
  /\ ret = "NULL"
  /\ errorp.msg = MSG_NO_EXE
  /\ heap["args"] = "freed"
  /\ heap["security_tag"] = "freed"
  /\ heap["executable"] = "none"

\* C10: when the first token that ends the scan is one that starts with
\* '-' and is neither '--version' nor '--classic' (the lone dash, a case
\* variant and a prefix included), the parse fails with the usage error
\* whose message prints that token, and the scan index stays on it: no
\* later token is inspected.
C10_UnrecognizedNamesToken ==
  \A i \in TokenIndices :
    (Returned /\ IsUnrecognized(in_argv[i]) /\ ScanReaches(i))
    => /\ UsageFailure
       /\ errorp.msg = MSG_OPTION
       /\ errorp.arg = in_argv[i]
       /\ optind = i

C10_Witness ==
  /\ UsageFailure
  /\ in_argc = 4
  /\ in_argv[1] = TAG
  /\ in_argv[2] = DASH
  /\ in_argv[3] = VERS
  /\ errorp.msg = MSG_OPTION
  /\ errorp.arg = DASH
  /\ optind = 2

\* C11: with a null count handle or vector handle, or a count of zero, the
\* call fails with the generic error (code 0, not the usage code) and no
\* result; nothing was allocated and no token was scanned.
C11_InvalidCallGenericError ==
  (Returned /\ (argcp_null \/ argvp_null \/ in_argc = 0))
  => /\ ret = "NULL"
     /\ ~errorp.null
     /\ errorp.domain = SC_ARGS_DOMAIN
     /\ errorp.code = 0
     /\ errorp.code # SC_ARGS_ERR_USAGE
     /\ errorp.msg = IF argcp_null \/ argvp_null THEN MSG_NULL ELSE MSG_ZERO
     /\ optind = 0
     /\ \A b \in Blocks : heap[b] = "none"

C11_Witness ==
  /\ Returned
  /\ ~argcp_null
  /\ ~argvp_null
  /\ in_argc = 0
  /\ ret = "NULL"
  /\ errorp.code = 0
  /\ errorp.msg = MSG_ZERO

\* C12: sc_cleanup_args on a reference to a live result frees the result
\* and the strings it owns, each once, and nulls the reference; on a null
\* reference it frees nothing and leaves the reference null.  No block is
\* ever freed twice.
C12_ReleaseIdempotent ==
  [][ cleanups' = cleanups + 1
      => /\ ret' = "NULL"
         /\ \A b \in Blocks : heap'[b] # "double"
         /\ ( ret = "obj"
              => /\ heap'["args"] = "freed"
                 /\ \A b \in Blocks :
                      heap'[b] = IF heap[b] = "live" THEN "freed" ELSE heap[b] )
         /\ ( ret = "NULL" => heap' = heap /\ obj' = obj ) ]_vars

C12_Witness ==
  /\ pc = "released"
  /\ cleanups = 2
  /\ ret = "NULL"
  /\ errorp.null
  /\ heap["args"] = "freed"
  /\ heap["security_tag"] = "freed"
  /\ heap["executable"] = "freed"

\* C13: an accessor called on a null result dies and returns no value;
\* called on a live result it returns its field of the result; no accessor
\* call changes the result, the heap or the caller's reference.
C13_AccessorsReadOrDie ==
  [][ call' # call
      => /\ obj' = obj
         /\ heap' = heap
         /\ ret' = ret
         /\ call'.fn \in Accessors
         /\ ( ret = "NULL" => call'.outcome = "die" /\ pc' = "died" )
         /\ ( ret = "obj"
              => /\ call'.outcome = "value"
                 /\ pc' = pc
                 /\ ( call'.fn = "sc_args_is_version_query"
                      => call'.val = obj.is_version_query )
                 /\ ( call'.fn = "sc_args_is_classic_confinement"
                      => call'.val = obj.is_classic_confinement )
                 /\ ( call'.fn = "sc_args_security_tag"
                      => call'.val = obj.security_tag )
                 /\ ( call'.fn = "sc_args_executable"
                      => call'.val = obj.executable ) ) ]_vars

C13_Witness ==
  /\ pc = "returned"
  /\ ret = "obj"
  /\ call.fn = "sc_args_is_classic_confinement"
  /\ call.outcome = "value"
  /\ call.val = TRUE
  /\ obj.is_version_query = FALSE

\* C14: no token is inspected after the executable is stored: in every
\* scan state the executable is unset, so a positional token never finds
\* both fields set; on success the executable is the token the scan
\* stopped at and every later token, positional or not, is in the tail
\* unchanged.
C14_ExecutableEndsScan ==
  /\ (pc = "scan" => obj.executable = NULL)
  /\ ( (Succeeded /\ obj.executable # NULL)
       => /\ obj.executable = in_argv[optind]
          /\ obj.security_tag = in_argv[TagIndexBefore(optind)]
          /\ \A k \in (optind + 1)..(in_argc - 1) :
               argv_mem[k - optind] = in_argv[k] )

C14_Witness ==
  /\ Succeeded
  /\ in_argc = 5
  /\ in_argv[1] = TAG
  /\ in_argv[2] = EXE
  /\ in_argv[3] = TAG
  /\ in_argv[4] = DASH
  /\ obj.executable = EXE
  /\ argv_mem[1] = TAG
  /\ argv_mem[2] = DASH

\* C15: once security_tag holds a value no scan step changes it, and on
\* success it is the first positional token that the legacy discard did
\* not swallow.
C15_TagWriteOnce ==
  /\ [][ (pc = "scan" /\ obj.security_tag # NULL)
         => obj'.security_tag = obj.security_tag ]_vars
  /\ []( (Succeeded /\ obj.security_tag # NULL)
         => /\ TagIndexBefore(optind + 1) # 0
            /\ obj.security_tag = in_argv[TagIndexBefore(optind + 1)]
            /\ PositionalsUpTo(TagIndexBefore(optind + 1))
                 = IF LegacyInvocation(in_argv[0]) THEN 2 ELSE 1 )

C15_Witness ==
  /\ Succeeded
  /\ in_argv[0] = PATH_LEGACY
  /\ in_argc = 5
  /\ in_argv[1] = EXE
  /\ in_argv[2] = EMPTY
  /\ in_argv[3] = CLASSIC
  /\ in_argv[4] = TAG
  /\ obj.security_tag = EMPTY
  /\ obj.executable = TAG

\* C16: a non-legacy vector of a tag token and an executable token with one
\* or more '--classic' tokens before the executable, before or after the
\* tag, and nothing else before the executable, parses successfully with
\* is_classic_confinement true and the tag and the executable that the
\* vector without the '--classic' tokens gives.
C16_ClassicKeepsPositionals ==
  \A i, k \in TokenIndices :
    ( /\ Returned
      /\ FinalComponent(in_argv[0]) # LEGACY_NAME
      /\ i < k
      /\ IsPositional(in_argv[i])
      /\ IsPositional(in_argv[k])
      /\ \A j \in (1..k) \ {i, k} : in_argv[j] = CLASSIC
      /\ k > 2 )
    => /\ Succeeded
       /\ obj.is_classic_confinement = TRUE
       /\ obj.is_version_query = FALSE
       /\ obj.security_tag = in_argv[i]
       /\ obj.executable = in_argv[k]
       /\ optind = k

C16_Witness ==
  /\ Succeeded
  /\ in_argc = 5
  /\ in_argv[0] = PROG
  /\ in_argv[1] = CLASSIC
  /\ in_argv[2] = TAG
  /\ in_argv[3] = CLASSIC
  /\ in_argv[4] = EXE
  /\ obj.is_classic_confinement
  /\ obj.security_tag = TAG
  /\ obj.executable = EXE

\* C17: a failing parse leaves the caller's count cell and every slot of
\* the vector as they were; the vector and the count are written only by
\* the shift, which is reached only with a result and no error.
C17_FailureLeavesArgv ==
  /\ []( (Returned /\ ret = "NULL")
         => argc_cell = in_argc /\ argv_mem = in_argv )
  /\ [][ (argv_mem' # argv_mem \/ argc_cell' # argc_cell)
         => pc = "shift" /\ err.null /\ args = "obj" ]_vars
  /\ []( pc = "shift" => err.null /\ args = "obj" )

C17_Witness ==
  /\ UsageFailure
  /\ in_argc = 5
  /\ in_argv[1] = TAG
  /\ in_argv[2] = CLASSIC
  /\ in_argv[3] = VERS
  /\ in_argv[4] = EXE
  /\ argc_cell = 5
  /\ argv_mem = in_argv

\* C18: the shift starts with the scan index s on a token, 1 <= s <= argc-1,
\* so on success the count written back, argc-s, is at least 1 and the null
\* marker is written at index argc-s, one of the slots 1..argc-1 of the
\* vector as passed; the storage has the slots it had.
C18_StopIndexInBounds ==
  /\ ( pc = "shift" => 1 <= optind /\ optind <= argc - 1 )
  /\ ( Succeeded
       => /\ 1 <= optind
          /\ optind <= in_argc - 1
          /\ argc_cell = in_argc - optind
          /\ argc_cell >= 1
          /\ (in_argc - optind) \in 1..(in_argc - 1)
          /\ argv_mem[in_argc - optind] = NULL
          /\ DOMAIN argv_mem = DOMAIN in_argv )

C18_Witness ==
  /\ Succeeded
  /\ in_argc = 3
  /\ in_argv[1] = TAG
  /\ in_argv[2] = EXE
  /\ optind = 2
  /\ argc_cell = 1
  /\ argv_mem[1] = NULL

\* C19: whenever is_version_query is set the executable is unset and its
\* block was never allocated; the security tag is set when a positional
\* token was stored before '--version' and unset otherwise.
C19_VersionExcludesExecutable ==
  /\ ( obj.is_version_query
       => obj.executable = NULL /\ heap["executable"] = "none" )
  /\ ( (Succeeded /\ obj.is_version_query)
       => /\ in_argv[optind] = VERSION
          /\ (obj.security_tag # NULL <=> TagIndexBefore(optind) # 0) )

C19_Witness ==
  /\ Succeeded
  /\ obj.is_version_query
  /\ in_argv[0] = PROG
  /\ in_argv[1] = TAG
  /\ in_argv[2] = VERSION
  /\ obj.security_tag = TAG
  /\ obj.executable = NULL

\* The n-th positional token of the vector the caller passed.
NthPositional(n) ==
  in_argv[CHOOSE j \in TokenIndices :
            IsPositional(in_argv[j]) /\ PositionalsUpTo(j) = n]

\* C20: under a legacy invocation (the final path component of argv[0] is
\* the legacy name) exactly one positional token is discarded, also with
\* '--classic' tokens before it: a success that is no version query took
\* three positional tokens and stored the second and the third; and a
\* vector with two positional tokens, no '--version' and no unrecognized
\* switch fails with the missing executable usage error.
C20_LegacyDiscardsExactlyOne ==
  /\ ( ( /\ Succeeded
         /\ FinalComponent(in_argv[0]) = LEGACY_NAME
         /\ ~obj.is_version_query )
       => /\ PositionalsUpTo(optind) = 3
          /\ obj.security_tag = NthPositional(2)
          /\ obj.executable = NthPositional(3) )
  /\ ( ( /\ Returned
         /\ FinalComponent(in_argv[0]) = LEGACY_NAME
         /\ PositionalsUpTo(in_argc - 1) = 2
         /\ \A i \in TokenIndices :
              in_argv[i] # VERSION /\ ~IsUnrecognized(in_argv[i]) )
       => UsageFailure /\ errorp.msg = MSG_NO_EXE )

\* The part of C20 about the flag itself: it is cleared only by a scan
\* step on a positional token, which stores nothing, and is never set
\* again; '--classic' tokens leave it armed.  With the flag armed at entry
\* (argv[0] has a '/' and the legacy name after the last one) exactly one
\* positional token is discarded.
LegacyFlagOneShot ==
  /\ [][ (pc = "scan" /\ ignore_first_tag /\ ~ignore_first_tag')
         => /\ IsPositional(argv_mem[optind])
            /\ obj' = obj
            /\ heap' = heap
            /\ optind' = optind + 1
            /\ pc' = "scan" ]_vars
  /\ [][ (pc = "scan" /\ ignore_first_tag /\ argv_mem[optind] = CLASSIC)
         => ignore_first_tag' ]_vars
  /\ [][ (pc # "entry" /\ ~ignore_first_tag) => ~ignore_first_tag' ]_vars
  /\ []( ( /\ Succeeded
           /\ LegacyInvocation(in_argv[0])
           /\ ~obj.is_version_query )
         => /\ PositionalsUpTo(optind) = 3
            /\ obj.security_tag = NthPositional(2)
            /\ obj.executable = NthPositional(3) )
  /\ []( ( /\ Returned
           /\ LegacyInvocation(in_argv[0])
           /\ PositionalsUpTo(in_argc - 1) = 2
           /\ \A i \in TokenIndices :
                in_argv[i] # VERSION /\ ~IsUnrecognized(in_argv[i]) )
         => UsageFailure /\ errorp.msg = MSG_NO_EXE )

\* The flag-armed case of C20 happens: '--classic' tokens around the
\* discarded token, two positional tokens, the executable missing.
LegacyFlagOneShot_Witness ==
  /\ UsageFailure
  /\ in_argc = 5
  /\ in_argv[0] = PATH_LEGACY
  /\ in_argv[1] = CLASSIC
  /\ in_argv[2] = TAG
  /\ in_argv[3] = CLASSIC
  /\ in_argv[4] = EXE
  /\ errorp.msg = MSG_NO_EXE
====
